---------------------------- MODULE Spec2Model ----------------------------
(***************************************************************************)
(* Synchronised playback: the StreamGateway of src/server/src/             *)
(* stream.gateway.ts (authoritative clock, command handlers, broadcast     *)
(* timer) and the useStreamPlayer / StreamPlayer client of                 *)
(* src/unnamed/part_000 and part_001 (reconciliation, viewer controls).    *)
(*                                                                         *)
(* Numbers.  Every time is an integer count of 100 ms quanta: Date.now()   *)
(* (milliseconds in the source) and media positions (seconds in the        *)
(* source) are both counted in quanta, so the source's "/ 1000" from       *)
(* milliseconds to seconds is the operator MsToSeconds below.  A           *)
(* JavaScript value is a record [kind, val]; kind "number" is a finite     *)
(* number, the other kinds are the values Number.isFinite rejects.         *)
(***************************************************************************)
EXTENDS Integers, Sequences, FiniteSets, TLC

(***************************************************************************)
(* Bounds of the model.                                                    *)
(***************************************************************************)
\* number of connections (viewers)
NumClients == 2
\* the clock stops advancing here
MaxNow == 2
\* largest time a peer puts in a payload
MaxTime == 2
\* length of the media file, in quanta (HTMLMediaElement.duration)
Duration == 2
\* messages in flight towards one client
MaxInbox == 1
\* messages a client has emitted that the server has not handled yet
MaxOutbox == 1
\* how far the client's clock may be ahead of the server's, in quanta
ClockSkew == 2
\* largest size of the media file, in bytes
MaxSize == 3
\* longest range spec after the unit of a Range header, in characters
MaxSpecLen == 5

\* 0.1 s and 2000 ms, in quanta of 100 ms
FORCE_SYNC_THRESHOLD_SECONDS == 1
PLAYER_SYNC_CHECK_INTERVAL_MS == 20

Clients == 1..NumClients

\* the positions viewers pick on the seek control: both ends of the media
Positions == {0, Duration}

\* the connection of the client modelled in full
Self == 1

(***************************************************************************)
(* JavaScript values.                                                      *)
(***************************************************************************)
Num(n) == [kind |-> "number", val |-> n]
NaN == [kind |-> "NaN", val |-> 0]
PosInfinity == [kind |-> "Infinity", val |-> 0]
NegInfinity == [kind |-> "-Infinity", val |-> 0]
Undefined == [kind |-> "undefined", val |-> 0]
Text == [kind |-> "string", val |-> 0]

NonFinite == {NaN, PosInfinity, NegInfinity, Undefined, Text}

\* what a peer may put in a play, pause or seek event
Payloads == NonFinite \cup {Num(n) : n \in -1..MaxTime}

Max(a, b) == IF a >= b THEN a ELSE b
Min(a, b) == IF a <= b THEN a ELSE b
Abs(a) == IF a >= 0 THEN a ELSE -a

\* typeof value === 'number' without Number.isFinite
isFiniteNumberTypeofOnly(value) ==
    value.kind \in {"number", "NaN", "Infinity", "-Infinity"}

\* stream.gateway.ts: isFiniteNumber
isFiniteNumber(value) ==
    value.kind = "number"

\* Math.max(0, value) on any JavaScript value
MathMax0(value) ==
    CASE value.kind = "number" -> Num(Max(0, value.val))
      [] value.kind = "Infinity" -> PosInfinity
      [] value.kind = "-Infinity" -> Num(0)
      [] OTHER -> NaN

\* (ms) / 1000: milliseconds to seconds; both are counted in quanta
MsToSeconds(ms) == ms

(***************************************************************************)
(* State.                                                                  *)
(***************************************************************************)
VARIABLES
    now,                  \* Date.now()
    state,                \* StreamGateway.state
    server,               \* StreamGateway.server is set
    broadcastIntervalId,  \* "null" or "timer"
    connected,            \* the connections socket.io holds
    emitted,              \* per connection, the messages the last step emitted
    last                  \* the event the last step handled, with the state before it

\* One client, the connection Self, is modelled in full; the other viewers
\* run the same code and appear through the commands they send.
VARIABLES
    video,                \* the HTMLVideoElement
    lastSyncStateRef,     \* the last snapshot received
    isScrubbing,          \* the viewer is dragging the seek control
    scrubTimeRef,         \* the position of the drag
    inbox,                \* server -> client messages in flight
    outbox,               \* client -> server messages in flight
    autoplay,             \* the browser lets a script start playback
    quiet,                \* viewers, connections and the process do nothing more
    skew                  \* the client's clock minus the server's

\* The media endpoint (stream.controller.ts) and the record of what the
\* client did last (history).
VARIABLES
    http,                 \* the file, the request and the response of GET /video
    did,                  \* the last thing the client did (history)
    ledger                \* the runtime's timers and the time supplied and played (history)

serverVars == <<now, state, server, broadcastIntervalId, connected, emitted, last>>
clientVars == <<video, lastSyncStateRef, isScrubbing, scrubTimeRef, inbox, outbox,
                autoplay, quiet, skew>>
auxVars == <<http, did, ledger>>
vars == <<serverVars, clientVars, auxVars>>

InitialState == [isPlaying |-> FALSE, currentTime |-> Num(0), updatedAtMs |-> 0]

NoEvent == [op |-> "none", peer |-> 0, time |-> Undefined, pre |-> InitialState, at |-> 0]

Event(op, peer, time) ==
    [op |-> op, peer |-> peer, time |-> time, pre |-> state, at |-> now]

NoEmit == [c \in Clients |-> <<>>]

(***************************************************************************)
(* The clock model: getEffectiveTime, commitTime, getSyncState.            *)
(***************************************************************************)
\* getEffectiveTime without the floor of a negative elapsed time
getEffectiveTimeNoFloor(st, nowMs) ==
    LET baseTime == IF isFiniteNumber(st.currentTime) THEN st.currentTime.val ELSE 0
    IN  IF ~st.isPlaying THEN Max(0, baseTime)
        ELSE Max(0, baseTime + MsToSeconds(nowMs - st.updatedAtMs))

\* getEffectiveTime that takes the distance between the two readings
getEffectiveTimeAbsElapsed(st, nowMs) ==
    LET baseTime == IF isFiniteNumber(st.currentTime) THEN st.currentTime.val ELSE 0
    IN  IF ~st.isPlaying THEN Max(0, baseTime)
        ELSE Max(0, baseTime + Abs(MsToSeconds(nowMs - st.updatedAtMs)))

getEffectiveTime(st, nowMs) ==
    LET baseTime == IF isFiniteNumber(st.currentTime) THEN st.currentTime.val ELSE 0
    IN  IF ~st.isPlaying THEN Max(0, baseTime)
        ELSE LET elapsedSeconds == Max(0, MsToSeconds(nowMs - st.updatedAtMs))
             IN  Max(0, baseTime + elapsedSeconds)

\* commitTime that keeps the time of the previous checkpoint
commitTimeKeepsStamp(st, nowMs) ==
    [st EXCEPT !.currentTime = Num(getEffectiveTime(st, nowMs))]

commitTime(st, nowMs) ==
    [st EXCEPT !.currentTime = Num(getEffectiveTime(st, nowMs)),
               !.updatedAtMs = nowMs]

\* getSyncState that sends the stored checkpoint, not the effective time
getSyncStateStored(st, nowMs) ==
    [isPlaying |-> st.isPlaying,
     currentTime |-> st.currentTime,
     serverTimeMs |-> nowMs]

getSyncState(st, nowMs) ==
    [isPlaying |-> st.isPlaying,
     currentTime |-> Num(getEffectiveTime(st, nowMs)),
     serverTimeMs |-> nowMs]

SyncStateMsg(snapshot) == [ev |-> "syncState", body |-> snapshot]

\* server.emit(...): one message to every connection
EmitToAll(conns, msg) ==
    [c \in Clients |-> IF c \in conns THEN <<msg>> ELSE <<>>]

\* client.emit(...): one message to one connection
EmitToOne(p, msg) ==
    [c \in Clients |-> IF c = p THEN <<msg>> ELSE <<>>]

\* broadcastSyncState through socket.broadcast: everyone but the sender
broadcastSyncStateOthers(st, nowMs, sender) ==
    IF ~server THEN NoEmit
    ELSE EmitToAll(connected \ {sender}, SyncStateMsg(getSyncState(st, nowMs)))

\* broadcastSyncState, called for the connection `sender` (0: the timer)
broadcastSyncState(st, nowMs, sender) ==
    IF ~server THEN NoEmit
    ELSE EmitToAll(connected, SyncStateMsg(getSyncState(st, nowMs)))

(***************************************************************************)
(* The command handlers, as functions of the state and as steps.           *)
(***************************************************************************)
\* the checkpoint logic that clamps a payload it cannot use to zero
CheckpointClampAll(st, time, nowMs) ==
    [st EXCEPT !.currentTime = IF isFiniteNumber(time) THEN MathMax0(time) ELSE Num(0),
               !.updatedAtMs = nowMs]

\* the checkpoint logic handlePlay and handlePause share
Checkpoint(st, time, nowMs) ==
    IF isFiniteNumber(time)
    THEN [st EXCEPT !.currentTime = MathMax0(time), !.updatedAtMs = nowMs]
    ELSE commitTime(st, nowMs)

\* handlePlay that keeps the old timestamp when it commits
playStateStaleStamp(st, time, nowMs) ==
    IF isFiniteNumber(time)
    THEN [st EXCEPT !.currentTime = MathMax0(time), !.updatedAtMs = nowMs,
                    !.isPlaying = TRUE]
    ELSE [st EXCEPT !.isPlaying = TRUE]

playState(st, time, nowMs) ==
    [Checkpoint(st, time, nowMs) EXCEPT !.isPlaying = TRUE, !.updatedAtMs = nowMs]

pauseState(st, time, nowMs) ==
    [Checkpoint(st, time, nowMs) EXCEPT !.isPlaying = FALSE, !.updatedAtMs = nowMs]

\* handleSeek that also stops playback
seekStateStops(st, time, nowMs) ==
    [st EXCEPT !.currentTime = MathMax0(time), !.updatedAtMs = nowMs,
               !.isPlaying = FALSE]

seekState(st, time, nowMs) ==
    [st EXCEPT !.currentTime = MathMax0(time), !.updatedAtMs = nowMs]

\* the body of handlePlay: the new state and what is emitted
playEffect(p, time) ==
    LET st == playState(state, time, now)
    IN  [state |-> st, emitted |-> broadcastSyncState(st, now, p)]

pauseEffect(p, time) ==
    LET st == pauseState(state, time, now)
    IN  [state |-> st, emitted |-> broadcastSyncState(st, now, p)]

\* handleSeek that treats a payload it cannot use as play and pause do
seekEffectCommitsOnBadTime(p, time) ==
    LET st == IF isFiniteNumber(time) THEN seekState(state, time, now)
              ELSE commitTime(state, now)
    IN  [state |-> st, emitted |-> broadcastSyncState(st, now, p)]

seekEffect(p, time) ==
    IF ~isFiniteNumber(time)
    THEN [state |-> state, emitted |-> NoEmit]
    ELSE LET st == seekState(state, time, now)
         IN  [state |-> st, emitted |-> broadcastSyncState(st, now, p)]

handlePlay(p, time) ==
    /\ server /\ p \in connected
    /\ state' = playEffect(p, time).state
    /\ emitted' = playEffect(p, time).emitted
    /\ last' = Event("play", p, time)
    /\ UNCHANGED <<now, server, broadcastIntervalId, connected>>

handlePause(p, time) ==
    /\ server /\ p \in connected
    /\ state' = pauseEffect(p, time).state
    /\ emitted' = pauseEffect(p, time).emitted
    /\ last' = Event("pause", p, time)
    /\ UNCHANGED <<now, server, broadcastIntervalId, connected>>

handleSeek(p, time) ==
    /\ server /\ p \in connected
    /\ state' = seekEffect(p, time).state
    /\ emitted' = seekEffect(p, time).emitted
    /\ last' = Event("seek", p, time)
    /\ UNCHANGED <<now, server, broadcastIntervalId, connected>>

\* handleSync that answers through the server, to everyone
syncReplyToAll(p, nowMs) ==
    EmitToAll(connected, SyncStateMsg(getSyncState(state, nowMs)))

syncReply(p, nowMs) ==
    EmitToOne(p, SyncStateMsg(getSyncState(state, nowMs)))

handleSync(p) ==
    /\ server /\ p \in connected
    /\ emitted' = syncReply(p, now)
    /\ last' = Event("sync", p, Undefined)
    /\ UNCHANGED <<now, state, server, broadcastIntervalId, connected>>

(***************************************************************************)
(* Lifecycle, broadcast timer, connections, clock.                         *)
(***************************************************************************)
afterInit ==
    /\ ~server
    /\ server' = TRUE
    /\ broadcastIntervalId' = "timer"
    /\ emitted' = NoEmit
    /\ last' = NoEvent
    /\ UNCHANGED <<now, state, connected>>

\* a shutdown that forgets the interval without clearing it
onModuleDestroyLeavesTimer ==
    /\ server
    /\ emitted' = NoEmit
    /\ last' = NoEvent
    /\ UNCHANGED <<now, state, server, broadcastIntervalId, connected>>

onModuleDestroy ==
    /\ server
    /\ broadcastIntervalId' = "null"
    /\ emitted' = NoEmit
    /\ last' = NoEvent
    /\ UNCHANGED <<now, state, server, connected>>

\* the interval callback that skips a tick when nothing changed since the checkpoint
IntervalCallbackOnChange(nowMs) ==
    IF state.updatedAtMs = nowMs THEN broadcastSyncState(state, nowMs, 0) ELSE NoEmit

\* the setInterval callback of afterInit
IntervalCallback(nowMs) ==
    broadcastSyncState(state, nowMs, 0)

BroadcastTick ==
    /\ broadcastIntervalId = "timer"
    /\ emitted' = IntervalCallback(now)
    /\ last' = Event("tick", 0, Undefined)
    /\ UNCHANGED <<now, state, server, broadcastIntervalId, connected>>

Connect(p) ==
    /\ server /\ p \notin connected
    /\ connected' = connected \cup {p}
    /\ emitted' = NoEmit
    /\ last' = NoEvent
    /\ UNCHANGED <<now, state, server, broadcastIntervalId>>

Disconnect(p) ==
    /\ p \in connected
    /\ connected' = connected \ {p}
    /\ emitted' = NoEmit
    /\ last' = NoEvent
    /\ UNCHANGED <<now, state, server, broadcastIntervalId>>

Tick ==
    /\ now < MaxNow
    /\ now' = now + 1
    /\ emitted' = NoEmit
    /\ last' = NoEvent
    /\ UNCHANGED <<state, server, broadcastIntervalId, connected>>

InitialVideo == [currentTime |-> 0, paused |-> TRUE, seeking |-> FALSE, by |-> "other"]

NoRecord == [set |-> FALSE, isPlaying |-> FALSE, currentTime |-> 0,
             serverTimeMs |-> 0, receivedAtMs |-> 0]

InitClient ==
    /\ video = InitialVideo
    /\ lastSyncStateRef = NoRecord
    /\ isScrubbing = FALSE
    /\ scrubTimeRef = 0
    /\ inbox = <<>>
    /\ outbox = <<>>
    /\ quiet = FALSE

InitServer ==
    /\ now = 0
    /\ state = InitialState
    /\ server = FALSE
    /\ broadcastIntervalId = "null"
    /\ connected = {}
    /\ emitted = NoEmit
    /\ last = NoEvent

(***************************************************************************)
(* Spec: the gateway alone, its peers sending any payload.                 *)
(***************************************************************************)
(***************************************************************************)
(* The media endpoint: StreamController.stream (stream.controller.ts).     *)
(* A Range header is a sequence of characters; the unit "bytes=" (or       *)
(* another unit) counts as one character, and the empty sequence is a      *)
(* request without the header.  A response lists its status, the headers   *)
(* the handler sets and the bytes of the file it pipes.                    *)
(***************************************************************************)
Digits == {"0", "1", "2"}
SpecChars == Digits \cup {"-", ",", "x"}
Units == {"bytes=", "items="}

\* the Range headers of requests: none, or a unit followed by a spec
Headers ==
    {<<>>} \cup
    {<<u>> \o t : u \in Units,
                  t \in UNION {[1..n -> SpecChars] : n \in 0..MaxSpecLen}}

\* the file statSync finds, or its absence
Files == {[exists |-> FALSE, size |-> 0]} \cup
         {[exists |-> TRUE, size |-> n] : n \in 0..MaxSize}

DigitValue(c) == CASE c = "0" -> 0 [] c = "1" -> 1 [] OTHER -> 2

\* the longest prefix of s made of digits
RECURSIVE LeadingDigits(_)
LeadingDigits(s) ==
    IF s = <<>> \/ Head(s) \notin Digits THEN <<>>
    ELSE <<Head(s)>> \o LeadingDigits(Tail(s))

\* the number a sequence of digits writes in base 10
RECURSIVE Decimal(_)
Decimal(ds) ==
    IF ds = <<>> THEN 0
    ELSE 10 * Decimal(SubSeq(ds, 1, Len(ds) - 1)) + DigitValue(ds[Len(ds)])

\* a field of the split: a string, or undefined when the split is too short
Field(fields, i) ==
    IF i <= Len(fields) THEN [defined |-> TRUE, str |-> fields[i]]
    ELSE [defined |-> FALSE, str |-> <<>>]

\* Number.parseInt(field, 10): the leading digits, NaN without any
parseInt(field) ==
    IF ~field.defined \/ LeadingDigits(field.str) = <<>> THEN NaN
    ELSE Num(Decimal(LeadingDigits(field.str)))

\* range.startsWith('bytes=')
startsWith(range, unit) == range # <<>> /\ Head(range) = unit

\* range.replace('bytes=', ''): the first occurrence is removed
RECURSIVE replace(_, _)
replace(range, unit) ==
    IF range = <<>> THEN <<>>
    ELSE IF Head(range) = unit THEN Tail(range)
    ELSE <<Head(range)>> \o replace(Tail(range), unit)

\* str.split('-')
RECURSIVE split(_)
split(str) ==
    IF \A i \in 1..Len(str) : str[i] # "-" THEN <<str>>
    ELSE LET i == CHOOSE k \in 1..Len(str) :
                      str[k] = "-" /\ \A j \in 1..(k - 1) : str[j] # "-"
         IN  <<SubSeq(str, 1, i - 1)>> \o split(SubSeq(str, i + 1, Len(str)))

NoContentRange == [kind |-> "none", start |-> 0, end |-> 0, size |-> 0]
\* `bytes */${size}`
Unsatisfied(size) == [kind |-> "*", start |-> 0, end |-> 0, size |-> size]
\* `bytes ${start}-${end}/${size}`
ContentRange(start, end, size) ==
    [kind |-> "range", start |-> start, end |-> end, size |-> size]

NoBody == [kind |-> "none", start |-> 0, end |-> 0]
FileBytes(start, end) == [kind |-> "file", start |-> start, end |-> end]

NoResponse ==
    [status |-> 0, allowOrigin |-> "none", contentRange |-> NoContentRange,
     contentLength |-> -1, acceptRanges |-> "none", contentType |-> "none",
     body |-> NoBody]

\* res.status(404).send('Video file not found.')
NotFound ==
    [NoResponse EXCEPT !.status = 404,
                       !.body = [kind |-> "text", start |-> 0, end |-> 0]]

\* the three 416 branches: the header is set, then status and Content-Range
RangeNotSatisfiable(size) ==
    [NoResponse EXCEPT !.status = 416, !.allowOrigin = "*",
                       !.contentRange = Unsatisfied(size)]

\* res.writeHead(200, ...) and the whole file
FullContent(size) ==
    [NoResponse EXCEPT !.status = 200, !.allowOrigin = "*",
                       !.contentType = "video/mp4", !.contentLength = size,
                       !.acceptRanges = "bytes",
                       !.body = [kind |-> "file", start |-> 0, end |-> size - 1]]

\* res.writeHead(206, ...) and the bytes start..end
PartialContent(start, end, size) ==
    [NoResponse EXCEPT !.status = 206, !.allowOrigin = "*",
                       !.contentRange = ContentRange(start, end, size),
                       !.acceptRanges = "bytes",
                       !.contentLength = end - start + 1,
                       !.contentType = "video/mp4",
                       !.body = FileBytes(start, end)]

\* the range check that lets an end past the file through
rangeCheckedLoose(start, end, size) ==
    IF start < 0 \/ start > end
    THEN RangeNotSatisfiable(size)
    ELSE PartialContent(start, end, size)

\* lines 75-94: the validation and the 206 answer
rangeChecked(start, end, size) ==
    IF start < 0 \/ end >= size \/ start > end
    THEN RangeNotSatisfiable(size)
    ELSE PartialContent(start, end, size)

\* StreamController.stream
stream(file, range) ==
    IF ~file.exists THEN NotFound
    ELSE IF range = <<>> THEN FullContent(file.size)
    ELSE IF ~startsWith(range, "bytes=") THEN RangeNotSatisfiable(file.size)
    ELSE LET fields == split(replace(range, "bytes="))
             startStr == Field(fields, 1)
             endStr == Field(fields, 2)
             start == parseInt(startStr)
             end == parseInt(endStr)
         IN  IF start = NaN
             THEN LET suffixLength == parseInt(endStr)
                  IN  IF suffixLength = NaN
                      THEN RangeNotSatisfiable(file.size)
                      ELSE rangeChecked(Max(file.size - suffixLength.val, 0),
                                        file.size - 1, file.size)
             ELSE rangeChecked(start.val,
                               IF end = NaN THEN file.size - 1 ELSE end.val,
                               file.size)

NoRequest == [file |-> [exists |-> FALSE, size |-> 0], range |-> <<>>,
              response |-> NoResponse]

NoAct == [op |-> "none", echo |-> FALSE]

\* no interval is set, no time was supplied, nothing was played
NoLedger == [timers |-> 0, down |-> FALSE, base |-> 0, played |-> 0]

InitAux ==
    /\ http = NoRequest
    /\ did = NoAct
    /\ ledger = NoLedger

Init ==
    /\ InitServer
    /\ InitClient
    /\ InitAux
    /\ autoplay = TRUE
    /\ skew = 0

Next ==
    \/ afterInit /\ UNCHANGED <<clientVars, auxVars>>
    \/ onModuleDestroy /\ UNCHANGED <<clientVars, auxVars>>
    \/ BroadcastTick /\ UNCHANGED <<clientVars, auxVars>>
    \/ Tick /\ UNCHANGED <<clientVars, auxVars>>
    \/ \E p \in Clients : Connect(p) /\ UNCHANGED <<clientVars, auxVars>>
    \/ \E p \in Clients : Disconnect(p) /\ UNCHANGED <<clientVars, auxVars>>
    \/ \E p \in Clients, time \in Payloads : handlePlay(p, time) /\ UNCHANGED <<clientVars, auxVars>>
    \/ \E p \in Clients, time \in Payloads : handlePause(p, time) /\ UNCHANGED <<clientVars, auxVars>>
    \/ \E p \in Clients, time \in Payloads : handleSeek(p, time) /\ UNCHANGED <<clientVars, auxVars>>
    \/ \E p \in Clients : handleSync(p) /\ UNCHANGED <<clientVars, auxVars>>

Spec == Init /\ [][Next]_vars


(***************************************************************************)
(* The client: useStreamPlayer (part_000) and StreamPlayer (part_001).     *)
(* An operation on the player returns the new video element and the        *)
(* messages it emits.  A message carries its cause (history): "viewer" for *)
(* a viewer's action, "connect" and "timer" for the sync requests of       *)
(* handleConnect and the interval, "ended" / "ended-correction" for the    *)
(* ended listener, the latter when a reconciliation seek put the playing   *)
(* element at its end.                                                     *)
(***************************************************************************)
Cmd(ev, time, cause) == [ev |-> ev, time |-> time, cause |-> cause]

Done(v) == [video |-> v, out |-> <<>>]

\* who put the element where it is: a reconciliation step or anything else
By(who) == IF who = "correction" THEN "correction" ELSE "other"

clamp(value, min, max) == Min(max, Max(min, value))

\* HTMLMediaElement.play(): a rejected call changes nothing; an element that
\* has ended restarts from the beginning
VideoPlay(v, who) ==
    [v EXCEPT !.paused = FALSE,
              !.currentTime = IF @ = Duration THEN 0 ELSE @,
              !.by = IF v.currentTime = Duration THEN By(who) ELSE @]

\* seekTo whose broadcast default applies to every caller
seekToAlwaysBroadcast(v, time, broadcast, who) ==
    LET clampedTime == clamp(time, 0, IF Duration # 0 THEN Duration ELSE time)
    IN  [video |-> [v EXCEPT !.currentTime = clampedTime, !.seeking = TRUE, !.by = By(who)],
         out |-> <<Cmd("seek", Num(clampedTime), who)>>]

seekTo(v, time, broadcast, who) ==
    LET clampedTime == clamp(time, 0, IF Duration # 0 THEN Duration ELSE time)
    IN  [video |-> [v EXCEPT !.currentTime = clampedTime, !.seeking = TRUE, !.by = By(who)],
         out |-> IF broadcast THEN <<Cmd("seek", Num(clampedTime), who)>> ELSE <<>>]

pause(v, broadcast, who) ==
    [video |-> [v EXCEPT !.paused = TRUE],
     out |-> IF broadcast THEN <<Cmd("pause", Num(v.currentTime), who)>> ELSE <<>>]

\* `allowed`: video.play() is not rejected
play(v, broadcast, who, allowed) ==
    IF ~allowed THEN Done(v)
    ELSE LET w == VideoPlay(v, who)
         IN  [video |-> w,
              out |-> IF broadcast THEN <<Cmd("play", Num(w.currentTime), who)>> ELSE <<>>]

\* the extrapolated target of a record
TargetTime(rec, nowMs) ==
    IF rec.isPlaying
    THEN rec.currentTime + Max(0, MsToSeconds(nowMs - rec.serverTimeMs))
    ELSE rec.currentTime

\* a correction of the position alone
ReconcilePositionOnly(v, rec, nowMs, allowed) ==
    IF ~v.seeking
       /\ Abs(TargetTime(rec, nowMs) - v.currentTime) > FORCE_SYNC_THRESHOLD_SECONDS
    THEN seekTo(v, TargetTime(rec, nowMs), FALSE, "correction")
    ELSE Done(v)

\* a drift check that also corrects a drift equal to the threshold
forceSyncAtThreshold(v, rec, nowMs) ==
    IF ~v.seeking
       /\ Abs(TargetTime(rec, nowMs) - v.currentTime) >= FORCE_SYNC_THRESHOLD_SECONDS
    THEN seekTo(v, TargetTime(rec, nowMs), FALSE, "correction")
    ELSE Done(v)

\* the drift check and the forced seek (handleSyncState 518-523, interval 568-573)
forceSync(v, rec, nowMs) ==
    LET targetTime == TargetTime(rec, nowMs)
    IN  IF ~v.seeking
        THEN LET driftSeconds == targetTime - v.currentTime
             IN  IF Abs(driftSeconds) > FORCE_SYNC_THRESHOLD_SECONDS
                 THEN seekTo(v, targetTime, FALSE, "correction")
                 ELSE Done(v)
        ELSE Done(v)

\* a correction that leaves an element that is mid-seek alone altogether
ReconcileSkipsWhenSeeking(v, rec, nowMs, allowed) ==
    IF v.seeking THEN Done(v)
    ELSE LET s1 == forceSync(v, rec, nowMs)
             s2 == IF rec.isPlaying /\ s1.video.paused
                   THEN play(s1.video, FALSE, "correction", allowed)
                   ELSE Done(s1.video)
             s3 == IF ~rec.isPlaying /\ ~s2.video.paused
                   THEN pause(s2.video, FALSE, "correction")
                   ELSE Done(s2.video)
         IN  [video |-> s3.video, out |-> s1.out \o s2.out \o s3.out]

\* the correction both paths apply (handleSyncState 513-526, interval 562-576)
Reconcile(v, rec, nowMs, allowed) ==
    LET s1 == forceSync(v, rec, nowMs)
        s2 == IF rec.isPlaying /\ s1.video.paused
              THEN play(s1.video, FALSE, "correction", allowed)
              ELSE Done(s1.video)
        s3 == IF ~rec.isPlaying /\ ~s2.video.paused
              THEN pause(s2.video, FALSE, "correction")
              ELSE Done(s2.video)
    IN  [video |-> s3.video, out |-> s1.out \o s2.out \o s3.out]

\* the client's connection has room for one more message in flight
Room == Self \in connected => Len(inbox) < MaxInbox

OutRoom == Len(outbox) < MaxOutbox

\* Date.now() in the browser
ClientNow == now + skew

\* socket.on('syncState', handleSyncState): the push path
handleSyncState ==
    /\ Self \in connected /\ inbox # <<>>
    /\ inbox' = Tail(inbox)
    /\ LET body == Head(inbox).body
           rec == [set |-> TRUE, isPlaying |-> body.isPlaying,
                   currentTime |-> body.currentTime.val,
                   serverTimeMs |-> body.serverTimeMs, receivedAtMs |-> ClientNow]
           r == Reconcile(video, rec, ClientNow, autoplay)
       IN  IF ~isFiniteNumber(body.currentTime)
           THEN UNCHANGED <<lastSyncStateRef, video, outbox>>
           ELSE /\ lastSyncStateRef' = rec
                /\ IF isScrubbing
                   THEN UNCHANGED <<video, outbox>>
                   ELSE /\ video' = r.video
                        /\ outbox' = outbox \o r.out
    /\ UNCHANGED <<serverVars, isScrubbing, scrubTimeRef, autoplay, quiet, skew>>

\* a pull path that asks only when it has no record at all
PullNeedsSyncNoRecordOnly(lastState, nowMs) ==
    ~lastState.set

\* the pull path asks for a snapshot: no record yet, or a stale one
PullNeedsSync(lastState, nowMs) ==
    \/ ~lastState.set
    \/ nowMs - lastState.receivedAtMs > PLAYER_SYNC_CHECK_INTERVAL_MS * 2

\* the setInterval callback of the client: the pull path
PullInterval ==
    /\ Self \in connected /\ ~isScrubbing
    /\ LET r == Reconcile(video, lastSyncStateRef, ClientNow, autoplay)
       IN  IF PullNeedsSync(lastSyncStateRef, ClientNow)
           THEN /\ OutRoom
                /\ outbox' = Append(outbox, Cmd("sync", Undefined, "timer"))
                /\ UNCHANGED video
           ELSE /\ video' = r.video
                /\ outbox' = outbox \o r.out
    /\ UNCHANGED <<serverVars, lastSyncStateRef, isScrubbing, scrubTimeRef, inbox,
                   autoplay, quiet, skew>>

\* a connection handler that only records that the socket is connected
handleConnectSilent ==
    /\ ~quiet /\ server /\ Self \notin connected
    /\ connected' = connected \cup {Self}
    /\ UNCHANGED <<now, state, server, broadcastIntervalId, emitted, last>>
    /\ UNCHANGED <<video, lastSyncStateRef, isScrubbing, scrubTimeRef, inbox, outbox,
                   autoplay, quiet, skew>>

\* the connection is made: socket.on('connect', handleConnect)
handleConnect ==
    /\ ~quiet /\ server /\ Self \notin connected /\ OutRoom
    /\ connected' = connected \cup {Self}
    /\ outbox' = Append(outbox, Cmd("sync", Undefined, "connect"))
    /\ UNCHANGED <<now, state, server, broadcastIntervalId, emitted, last>>
    /\ UNCHANGED <<video, lastSyncStateRef, isScrubbing, scrubTimeRef, inbox,
                   autoplay, quiet, skew>>

\* the connection is lost: what was in flight towards the client is lost
handleDisconnect ==
    /\ ~quiet /\ Self \in connected
    /\ connected' = connected \ {Self}
    /\ inbox' = <<>>
    /\ UNCHANGED <<now, state, server, broadcastIntervalId, emitted, last>>
    /\ UNCHANGED <<video, lastSyncStateRef, isScrubbing, scrubTimeRef, outbox,
                   autoplay, quiet, skew>>

\* the viewer clicks the video or the play button
togglePlay ==
    /\ ~quiet /\ OutRoom
    /\ LET r == IF video.paused
                THEN play(video, TRUE, "viewer", TRUE)
                ELSE pause(video, TRUE, "viewer")
       IN  /\ video' = r.video
           /\ outbox' = outbox \o r.out
    /\ autoplay' = TRUE
    /\ UNCHANGED <<serverVars, lastSyncStateRef, isScrubbing, scrubTimeRef, inbox, quiet, skew>>

handleScrubStart ==
    /\ ~quiet /\ ~isScrubbing
    /\ isScrubbing' = TRUE
    /\ scrubTimeRef' = video.currentTime
    /\ autoplay' = TRUE
    /\ UNCHANGED <<serverVars, video, lastSyncStateRef, inbox, outbox, quiet, skew>>

\* a drag that sends every intermediate position to the server
handleScrubChangeBroadcasts(value) ==
    /\ ~quiet /\ OutRoom
    /\ scrubTimeRef' = value
    /\ LET r == seekTo(video, value, TRUE, "viewer")
       IN  /\ video' = r.video
           /\ outbox' = outbox \o r.out
    /\ autoplay' = TRUE
    /\ UNCHANGED <<serverVars, lastSyncStateRef, isScrubbing, inbox, quiet, skew>>

handleScrubChange(value) ==
    /\ ~quiet /\ (isScrubbing \/ OutRoom)
    /\ scrubTimeRef' = value
    /\ LET r == IF isScrubbing
                THEN seekTo(video, value, FALSE, "viewer")
                ELSE seekTo(video, value, TRUE, "viewer")
       IN  /\ video' = r.video
           /\ outbox' = outbox \o r.out
    /\ autoplay' = TRUE
    /\ UNCHANGED <<serverVars, lastSyncStateRef, isScrubbing, inbox, quiet, skew>>

handleScrubEnd ==
    /\ ~quiet /\ isScrubbing /\ OutRoom
    /\ isScrubbing' = FALSE
    /\ LET r == seekTo(video, scrubTimeRef, TRUE, "viewer")
       IN  /\ video' = r.video
           /\ outbox' = outbox \o r.out
    /\ UNCHANGED <<serverVars, lastSyncStateRef, scrubTimeRef, inbox, autoplay, quiet, skew>>

\* the element finishes a seek ('seeked')
seeked ==
    /\ video.seeking
    /\ video' = [video EXCEPT !.seeking = FALSE]
    /\ UNCHANGED <<serverVars, lastSyncStateRef, isScrubbing, scrubTimeRef, inbox,
                   outbox, autoplay, quiet, skew>>

\* the ended listener that does not tell the server
handleEndedLocal(v) ==
    pause(v, FALSE, IF v.by = "correction" THEN "ended-correction" ELSE "ended")

\* handleEnded: pause({ broadcast: true })
handleEnded(v) ==
    pause(v, TRUE, IF v.by = "correction" THEN "ended-correction" ELSE "ended")

\* the playing element is at its end, no seek pending: 'ended' fires
Ended ==
    /\ ~video.paused /\ ~video.seeking /\ video.currentTime = Duration /\ OutRoom
    /\ LET r == handleEnded(video)
       IN  /\ video' = r.video
           /\ outbox' = outbox \o r.out
    /\ UNCHANGED <<serverVars, lastSyncStateRef, isScrubbing, scrubTimeRef, inbox,
                   autoplay, quiet, skew>>

\* the handler a message goes to
HandlerEffect(p, m) ==
    CASE m.ev = "play" -> playEffect(p, m.time)
      [] m.ev = "pause" -> pauseEffect(p, m.time)
      [] m.ev = "seek" -> seekEffect(p, m.time)
      [] OTHER -> [state |-> state, emitted |-> syncReply(p, now)]

\* socket.io hands the client's oldest message to its handler
Dispatch ==
    /\ server /\ Self \in connected /\ outbox # <<>> /\ Room
    /\ LET eff == HandlerEffect(Self, Head(outbox))
       IN  /\ state' = eff.state
           /\ inbox' = inbox \o eff.emitted[Self]
    /\ outbox' = Tail(outbox)
    /\ UNCHANGED <<now, server, broadcastIntervalId, connected, emitted, last>>
    /\ UNCHANGED <<video, lastSyncStateRef, isScrubbing, scrubTimeRef, autoplay, quiet, skew>>

\* the commands the other viewers' clients send: positions of the same media
RemoteCommands ==
    {Cmd(ev, Num(t), "viewer") : ev \in {"play", "pause", "seek"}, t \in Positions}

\* a command of another viewer reaches its handler
RemoteCommand(m) ==
    /\ ~quiet /\ server /\ Room
    /\ LET eff == HandlerEffect(0, m)
       IN  /\ state' = eff.state
           /\ inbox' = inbox \o eff.emitted[Self]
    /\ UNCHANGED <<now, server, broadcastIntervalId, connected, emitted, last>>
    /\ UNCHANGED <<video, lastSyncStateRef, isScrubbing, scrubTimeRef, outbox,
                   autoplay, quiet, skew>>

\* the broadcast timer fires and its snapshot goes on the wire
SysBroadcastTick ==
    /\ broadcastIntervalId = "timer" /\ Room
    /\ inbox' = inbox \o IntervalCallback(now)[Self]
    /\ UNCHANGED <<serverVars, video, lastSyncStateRef, isScrubbing, scrubTimeRef,
                   outbox, autoplay, quiet, skew>>

\* one quantum passes: the clock and the playing element advance
SysTick ==
    /\ now < MaxNow
    /\ now' = now + 1
    /\ video' = IF ~video.paused /\ video.currentTime < Duration
                THEN [video EXCEPT !.currentTime = @ + 1, !.by = "other"]
                ELSE video
    /\ UNCHANGED <<state, server, broadcastIntervalId, connected, emitted, last>>
    /\ UNCHANGED <<lastSyncStateRef, isScrubbing, scrubTimeRef, inbox, outbox,
                   autoplay, quiet, skew>>

Quiesce ==
    /\ ~quiet
    /\ quiet' = TRUE
    /\ UNCHANGED <<serverVars, video, lastSyncStateRef, isScrubbing, scrubTimeRef,
                   inbox, outbox, autoplay, skew>>

(***************************************************************************)
(* SpecSys: the gateway, one client in full, the other viewers' commands.  *)
(***************************************************************************)
InitSys ==
    /\ InitServer
    /\ InitClient
    /\ InitAux
    /\ autoplay \in BOOLEAN
    /\ skew \in {0, ClockSkew}

NextSys ==
    \/ afterInit /\ UNCHANGED <<clientVars, auxVars>>
    \/ SysBroadcastTick /\ UNCHANGED auxVars
    \/ SysTick /\ UNCHANGED auxVars
    \/ handleConnect /\ UNCHANGED auxVars
    \/ handleDisconnect /\ UNCHANGED auxVars
    \/ Dispatch /\ UNCHANGED auxVars
    \/ \E m \in RemoteCommands : RemoteCommand(m) /\ UNCHANGED auxVars
    \/ handleSyncState /\ UNCHANGED auxVars
    \/ PullInterval /\ UNCHANGED auxVars
    \/ togglePlay /\ UNCHANGED auxVars
    \/ handleScrubStart /\ UNCHANGED auxVars
    \/ \E value \in Positions : handleScrubChange(value) /\ UNCHANGED auxVars
    \/ handleScrubEnd /\ UNCHANGED auxVars
    \/ seeked /\ UNCHANGED auxVars
    \/ Ended /\ UNCHANGED auxVars

SpecSys == InitSys /\ [][NextSys]_vars

(***************************************************************************)
(* SpecLive: the same system with its scheduling.  The viewer of the       *)
(* client toggles playback, the other viewers send commands, until the     *)
(* environment goes quiet.  Messages on the wire are handled, the two      *)
(* timers keep firing and the element finishes its seeks and fires         *)
(* 'ended'; Dispatch and the broadcast timer wait for room on the wire,    *)
(* which the client makes again and again, hence their strong fairness;    *)
(* the browser queues 'ended' the moment playback is at the end, before    *)
(* the next correction can start another seek, hence its strong fairness.  *)
(***************************************************************************)
NextLive ==
    \/ afterInit /\ UNCHANGED <<clientVars, auxVars>>
    \/ SysBroadcastTick /\ UNCHANGED auxVars
    \/ SysTick /\ UNCHANGED auxVars
    \/ Quiesce /\ UNCHANGED auxVars
    \/ handleConnect /\ UNCHANGED auxVars
    \/ Dispatch /\ UNCHANGED auxVars
    \/ \E m \in RemoteCommands : RemoteCommand(m) /\ UNCHANGED auxVars
    \/ handleSyncState /\ UNCHANGED auxVars
    \/ PullInterval /\ UNCHANGED auxVars
    \/ togglePlay /\ UNCHANGED auxVars
    \/ seeked /\ UNCHANGED auxVars
    \/ Ended /\ UNCHANGED auxVars

Fairness ==
    /\ SF_vars(Dispatch /\ UNCHANGED auxVars)
    /\ SF_vars(SysBroadcastTick /\ UNCHANGED auxVars)
    /\ WF_vars(handleSyncState /\ UNCHANGED auxVars)
    /\ WF_vars(PullInterval /\ UNCHANGED auxVars)
    /\ WF_vars(seeked /\ UNCHANGED auxVars)
    /\ SF_vars(Ended /\ UNCHANGED auxVars)

SpecLive == InitSys /\ [][NextLive]_vars /\ Fairness

(***************************************************************************)
(* Reference definitions of the written design, used by the properties.    *)
(***************************************************************************)
\* effectiveTime(state, now) as the design states it
RefEffectiveTime(st, n) ==
    IF st.isPlaying
    THEN Max(0, st.currentTime.val + Max(0, n - st.updatedAtMs))
    ELSE Max(0, st.currentTime.val)

\* the snapshot of the present state taken when the last event was handled
RefSnapshotMsg ==
    [ev |-> "syncState",
     body |-> [isPlaying |-> state.isPlaying,
               currentTime |-> Num(RefEffectiveTime(state, last.at)),
               serverTimeMs |-> last.at]]

\* every connection was sent exactly that snapshot, and nobody else anything
BroadcastFollowed ==
    \A c \in Clients :
        emitted[c] = IF c \in connected THEN <<RefSnapshotMsg>> ELSE <<>>

FiniteTime(v) == v \notin NonFinite

Accepted ==
    \/ last.op \in {"play", "pause"}
    \/ last.op = "seek" /\ FiniteTime(last.time)

(***************************************************************************)
(* Properties of the gateway (specification Spec).                         *)
(***************************************************************************)
\* C1: in every reachable server state SessionState.currentTime is a finite
\* number and is >= 0, whatever payloads play, pause, seek and sync carried.
C1_CurrentTimeFiniteNonNegative ==
    /\ state.currentTime.kind = "number"
    /\ state.currentTime.val >= 0

\* C1 witness: a play carrying NaN was handled while the session was playing
\* and time had passed, so the checkpoint was re-committed.
C1_Witness ==
    /\ last.op = "play" /\ last.time = NaN
    /\ last.pre.isPlaying /\ last.at > last.pre.updatedAtMs
    /\ state.currentTime.val > 0

\* C4: every accepted play, pause or seek sends one snapshot of the
\* post-command state to every connected peer, the sender included; its
\* isPlaying is the state's and its currentTime the state's effective time.
C4_AcceptedCommandBroadcasts ==
    Accepted =>
        /\ BroadcastFollowed
        /\ last.peer \in connected
        /\ emitted[last.peer] = <<RefSnapshotMsg>>

\* C4 witness: a seek was accepted from connection 1 with both peers connected.
C4_Witness ==
    /\ last.op = "seek" /\ FiniteTime(last.time) /\ last.peer = 1
    /\ connected = Clients
    /\ state.isPlaying

\* C5: a seek whose payload is not a finite number leaves SessionState
\* unchanged, sends no syncState to anyone and no error to the sender.
C5_NonFiniteSeekIgnored ==
    (last.op = "seek" /\ last.time \in NonFinite) =>
        /\ state = last.pre
        /\ \A c \in Clients : emitted[c] = <<>>

\* C5 witness: a seek carrying Infinity arrived while playing, after the
\* checkpoint had aged, with both peers connected.
C5_Witness ==
    /\ last.op = "seek" /\ last.time = PosInfinity
    /\ state.isPlaying /\ last.at > state.updatedAtMs
    /\ connected = Clients

\* C6: after play at time now the state is {isPlaying: true, updatedAt: now,
\* currentTime: max(0, t)} for a finite t, else currentTime is the effective
\* time of the pre-state; pause likewise with isPlaying false.  The
\* connection stays connected and the broadcast follows.
C6_PlayPauseEffect ==
    (last.op \in {"play", "pause"}) =>
        /\ state.isPlaying = (last.op = "play")
        /\ state.updatedAtMs = last.at
        /\ state.currentTime =
              IF FiniteTime(last.time)
              THEN Num(Max(0, last.time.val))
              ELSE Num(RefEffectiveTime(last.pre, last.at))
        /\ last.peer \in connected
        /\ BroadcastFollowed

\* C6 witness: a play without payload resumed a playing session whose
\* checkpoint was older than now.
C6_Witness ==
    /\ last.op = "play" /\ last.time = Undefined
    /\ last.pre.isPlaying /\ last.at > last.pre.updatedAtMs
    /\ last.pre.currentTime.val > 0

\* C7: a seek with a finite t sets currentTime = max(0, t), updatedAt = now,
\* leaves isPlaying as it was, and broadcasts.
C7_SeekEffect ==
    (last.op = "seek" /\ FiniteTime(last.time)) =>
        /\ state.currentTime = Num(Max(0, last.time.val))
        /\ state.updatedAtMs = last.at
        /\ state.isPlaying = last.pre.isPlaying
        /\ BroadcastFollowed

\* C7 witness: a seek to a negative time while playing.
C7_Witness ==
    /\ last.op = "seek" /\ FiniteTime(last.time) /\ last.time.val < 0
    /\ last.pre.isPlaying /\ last.pre.currentTime.val > 0
    /\ connected # {}

\* C8 as stated: a play or pause carrying a non-finite or a negative time is
\* clamped to zero, currentTime is 0 afterwards.
C8_Original ==
    (/\ last.op \in {"play", "pause"}
     /\ (last.time \in NonFinite \/ last.time.val < 0)) =>
        state.currentTime = Num(0)

\* C8 amended: a play or pause carrying a negative finite time is clamped to
\* zero; one carrying a non-finite time is not rejected either but commits the
\* existing checkpoint (currentTime = effective time of the pre-state, the
\* play/pause flag and the timestamp still change); only seek rejects a
\* non-finite time outright.
C8_Amended ==
    /\ (last.op \in {"play", "pause"} /\ FiniteTime(last.time) /\ last.time.val < 0) =>
          state.currentTime = Num(0)
    /\ (last.op \in {"play", "pause"} /\ last.time \in NonFinite) =>
          /\ state.currentTime = Num(RefEffectiveTime(last.pre, last.at))
          /\ state.isPlaying = (last.op = "play")
          /\ emitted # NoEmit \/ connected = {}
    /\ (last.op = "seek" /\ last.time \in NonFinite) =>
          /\ state = last.pre
          /\ emitted = NoEmit

\* C8 witness: a pause carrying a non-number left a positive position.
C8_Witness ==
    /\ last.op = "pause" /\ last.time = Text
    /\ state.currentTime.val > 0

\* C9: a sync event never mutates SessionState and sends exactly one snapshot,
\* to the requesting connection only.
C9_SyncUnicast ==
    (last.op = "sync") =>
        /\ state = last.pre
        /\ emitted[last.peer] = <<RefSnapshotMsg>>
        /\ \A c \in Clients \ {last.peer} : emitted[c] = <<>>

\* C9 witness: a sync from connection 2 while playing, both peers connected,
\* the checkpoint older than now.
C9_Witness ==
    /\ last.op = "sync" /\ last.peer = 2
    /\ connected = Clients
    /\ state.isPlaying /\ last.at > state.updatedAtMs

\* C10: a tick of the broadcast timer sends one snapshot computed at the
\* tick's time to every connected peer, whether or not the state changed, and
\* leaves SessionState unchanged.
C10_TickBroadcastsUnconditionally ==
    (last.op = "tick") =>
        /\ state = last.pre
        /\ BroadcastFollowed

\* C10 witness: a tick with both peers connected while the paused state has
\* not changed since an earlier time.
C10_Witness ==
    /\ last.op = "tick"
    /\ connected = Clients
    /\ ~state.isPlaying /\ last.at > state.updatedAtMs

(***************************************************************************)
(* Properties of the whole system (specifications SpecSys and SpecLive).   *)
(***************************************************************************)
\* the client agrees with the server: same play/pause state, position within
\* the drift threshold of the server's effective position
Converged ==
    /\ video.paused = ~state.isPlaying
    /\ Abs(video.currentTime - RefEffectiveTime(state, now))
          <= FORCE_SYNC_THRESHOLD_SECONDS

\* C3: no play, pause or seek message that the client emits is caused by a
\* reconciliation step or by a player event that a correction triggered (the
\* element reaching its end after a corrective seek).
C3_CorrectionsNeverEmit ==
    \A i \in 1..Len(outbox) :
        outbox[i].ev \in {"play", "pause", "seek"}
            => outbox[i].cause \notin {"correction", "ended-correction"}

\* C2 as stated: once no viewer issues a command any more, a client that
\* stays connected and is not scrubbing eventually agrees with the server.
C2_Original ==
    (quiet /\ Self \in connected /\ ~isScrubbing) ~> Converged

\* C2 amended: once no viewer issues a command any more, a client that stays
\* connected, is not scrubbing and whose browser lets a script start
\* playback (video.play() is not rejected) eventually agrees with the server.
C2_Amended ==
    (quiet /\ Self \in connected /\ ~isScrubbing /\ autoplay /\ skew = 0)
        ~> Converged

\* C2 witness: the environment is quiet, the server plays, the client was
\* allowed to start and follows within the threshold at a position > 0.
C2_Witness ==
    /\ quiet /\ Self \in connected /\ autoplay /\ skew = 0
    /\ state.isPlaying /\ ~video.paused
    /\ video.currentTime > 0
    /\ Converged

(***************************************************************************)
(* SpecClock: the clock model on its own.  The checkpoint is any record    *)
(* with a finite position, the clock reads any value (it may read less     *)
(* than updatedAtMs), and getEffectiveTime and commitTime are applied.     *)
(***************************************************************************)
ClockStates ==
    [isPlaying : BOOLEAN,
     currentTime : {Num(n) : n \in -1..MaxTime},
     updatedAtMs : 0..MaxNow]

InitClock ==
    /\ state \in ClockStates
    /\ now \in 0..MaxNow
    /\ server = FALSE
    /\ broadcastIntervalId = "null"
    /\ connected = {}
    /\ emitted = NoEmit
    /\ last = NoEvent
    /\ InitClient
    /\ autoplay = TRUE
    /\ skew = 0
    /\ InitAux

\* this.getEffectiveTime(nowMs) with the clock reading nowMs
ClockRead(nowMs) ==
    /\ now' = nowMs
    /\ last' = [op |-> "getEffectiveTime", peer |-> 0,
                time |-> Num(getEffectiveTime(state, nowMs)),
                pre |-> state, at |-> nowMs]
    /\ UNCHANGED <<state, server, broadcastIntervalId, connected, emitted>>

\* this.commitTime(nowMs) with the clock reading nowMs
ClockCommit(nowMs) ==
    /\ state.currentTime.val <= MaxTime
    /\ now' = nowMs
    /\ state' = commitTime(state, nowMs)
    /\ last' = [op |-> "commitTime", peer |-> 0, time |-> Undefined,
                pre |-> state, at |-> nowMs]
    /\ UNCHANGED <<server, broadcastIntervalId, connected, emitted>>

\* this.getSyncState(nowMs) with the clock reading nowMs
ClockSnapshot(nowMs) ==
    /\ now' = nowMs
    /\ last' = [op |-> "getSyncState", peer |-> 0,
                time |-> getSyncState(state, nowMs).currentTime,
                pre |-> state, at |-> nowMs]
    /\ UNCHANGED <<state, server, broadcastIntervalId, connected, emitted>>

NextClock ==
    \/ \E nowMs \in 0..MaxNow : ClockRead(nowMs) /\ UNCHANGED <<clientVars, auxVars>>
    \/ \E nowMs \in 0..MaxNow : ClockSnapshot(nowMs) /\ UNCHANGED <<clientVars, auxVars>>
    \/ \E nowMs \in 0..MaxNow : ClockCommit(nowMs) /\ UNCHANGED <<clientVars, auxVars>>

SpecClock == InitClock /\ [][NextClock]_vars

\* C20: effectiveTime(state, now) is max(0, currentTime) when not playing,
\* whatever now is, and max(0, currentTime + max(0, now - updatedAt)) when
\* playing, so a now earlier than updatedAt yields currentTime; commitTime
\* stores that value with the time of the reading.
C20_EffectiveTimeFormula ==
    /\ last.op = "getEffectiveTime" =>
          /\ last.time = Num(RefEffectiveTime(last.pre, last.at))
          /\ ~last.pre.isPlaying => last.time = Num(Max(0, last.pre.currentTime.val))
          /\ (last.pre.isPlaying /\ last.at < last.pre.updatedAtMs)
                => last.time = Num(Max(0, last.pre.currentTime.val))
    /\ last.op = "commitTime" =>
          /\ state.currentTime = Num(RefEffectiveTime(last.pre, last.at))
          /\ state.updatedAtMs = last.at
          /\ state.isPlaying = last.pre.isPlaying

\* C20 witness: the time of a playing checkpoint was read by a clock behind
\* updatedAtMs, and the result is the positive stored position.
C20_Witness ==
    /\ last.op = "getEffectiveTime"
    /\ last.pre.isPlaying
    /\ last.at < last.pre.updatedAtMs
    /\ last.pre.currentTime.val > 0
    /\ last.time = last.pre.currentTime

\* the operations that compute the effective time at a clock reading
ClockReads == {"getEffectiveTime", "getSyncState"}

\* C21: for a playing checkpoint, the effective time computed at a clock
\* reading is never less than the one computed at an earlier or equal
\* reading of the same checkpoint; so the currentTime of successive
\* snapshots taken with no commit between them never decreases.
C21_MonotoneWhilePlaying ==
    [][(/\ last.op \in ClockReads /\ last'.op \in ClockReads
        /\ state.isPlaying
        /\ last.at <= last'.at)
          => /\ last'.pre = last.pre
             /\ last'.time.val >= last.time.val]_vars

\* C21 witness: a snapshot of a playing checkpoint taken at a reading later
\* than the checkpoint, further on in the media than the checkpoint.
C21_Witness ==
    /\ last.op = "getSyncState"
    /\ last.pre.isPlaying
    /\ last.at > last.pre.updatedAtMs
    /\ last.time.val > Max(0, last.pre.currentTime.val)

\* C22: a snapshot taken right after a commit, at the same clock reading,
\* carries the effective time computed before the commit; and a second
\* commit at the same reading changes nothing.
C22_CommitThenSnapshot ==
    [][/\ (last.op = "commitTime" /\ last'.op = "getSyncState" /\ last'.at = last.at)
          => last'.time = Num(RefEffectiveTime(last.pre, last.at))
       /\ (last.op = "commitTime" /\ last'.op = "commitTime" /\ last'.at = last.at)
          => state' = state]_vars

\* C22 witness: a playing checkpoint was committed at a later reading, which
\* moved it beyond the positions checkpoints start from, and the snapshot at
\* that reading carries the committed time.
C22_Witness ==
    /\ last.op = "getSyncState"
    /\ last.pre.isPlaying
    /\ last.pre.currentTime.val > MaxTime
    /\ last.at = last.pre.updatedAtMs
    /\ last.time = last.pre.currentTime

(***************************************************************************)
(* SpecRange: the media endpoint on its own.  A request is any header of   *)
(* Headers against any file of Files; the handler answers it once.         *)
(***************************************************************************)
InitRange ==
    /\ InitServer
    /\ InitClient
    /\ autoplay = TRUE
    /\ skew = 0
    /\ did = NoAct
    /\ ledger = NoLedger
    /\ http \in {[file |-> f, range |-> r, response |-> NoResponse] :
                    f \in Files, r \in Headers}

\* GET /video
Stream ==
    /\ http.response = NoResponse
    /\ http' = [http EXCEPT !.response = stream(http.file, http.range)]
    /\ UNCHANGED <<serverVars, clientVars, did, ledger>>

NextRange == Stream

SpecRange == InitRange /\ [][NextRange]_vars

\* a non-empty sequence of decimal digits
IsDecimal(str) == str # <<>> /\ \A i \in 1..Len(str) : str[i] \in Digits

\* the header is bytes=start-end, bytes=start- or bytes=-suffixLength
WellFormed(range) ==
    /\ startsWith(range, "bytes=")
    /\ \E i \in 2..Len(range) :
          /\ range[i] = "-"
          /\ LET a == SubSeq(range, 2, i - 1)
                 b == SubSeq(range, i + 1, Len(range))
             IN  \/ IsDecimal(a) /\ IsDecimal(b)
                 \/ IsDecimal(a) /\ b = <<>>
                 \/ a = <<>> /\ IsDecimal(b)

\* the reference resolution of a well-formed header: <<start, end>>
RefResolve(range, size) ==
    LET i == CHOOSE k \in 2..Len(range) : range[k] = "-"
        a == SubSeq(range, 2, i - 1)
        b == SubSeq(range, i + 1, Len(range))
    IN  IF a = <<>> THEN <<Max(size - Decimal(b), 0), size - 1>>
        ELSE IF b = <<>> THEN <<Decimal(a), size - 1>>
        ELSE <<Decimal(a), Decimal(b)>>

Answered == http.response # NoResponse

\* C17: for every file size and every header bytes=start-end, bytes=start-
\* or bytes=-suffixLength the answer is the reference resolution: 206 with
\* Content-Range bytes start-end/size, Content-Length end-start+1 and the
\* bytes start..end exactly when 0 <= start <= end < size, otherwise 416 with
\* Content-Range bytes */size.
C17_RangeResolution ==
    (Answered /\ http.file.exists /\ WellFormed(http.range)) =>
        LET size == http.file.size
            se == RefResolve(http.range, size)
            res == http.response
        IN  IF 0 <= se[1] /\ se[1] <= se[2] /\ se[2] < size
            THEN /\ res.status = 206
                 /\ res.contentRange = ContentRange(se[1], se[2], size)
                 /\ res.contentLength = se[2] - se[1] + 1
                 /\ res.body = FileBytes(se[1], se[2])
            ELSE /\ res.status = 416
                 /\ res.contentRange = Unsatisfied(size)
                 /\ res.body = NoBody

\* C17 witness: a suffix range longer than the file was answered with the
\* whole file as a 206.
C17_Witness ==
    /\ Answered /\ http.file.exists /\ http.file.size = 2
    /\ http.range = <<"bytes=", "-", "1", "0">>
    /\ http.response.status = 206
    /\ http.response.contentRange = ContentRange(0, 1, 2)

\* C18: every response of the media endpoint carries
\* Access-Control-Allow-Origin: *.
C18_EveryResponseAllowsOrigin ==
    Answered => http.response.allowOrigin = "*"

\* C19: for an existing file, a request whose Range header is malformed or
\* unsatisfiable is answered with 416 and Content-Range bytes */size; a
\* request with a Range header never gets a 5xx, nor a 206 for a malformed
\* spec.
C19_MalformedRangeRejected ==
    (Answered /\ http.file.exists /\ http.range # <<>>) =>
        /\ http.response.status < 500
        /\ ~WellFormed(http.range) =>
              /\ http.response.status = 416
              /\ http.response.contentRange = Unsatisfied(http.file.size)

(***************************************************************************)
(* SpecReconcile: the drift check on its own.  The element is at any       *)
(* position, mid-seek or not, the record is any snapshot and the client's  *)
(* clock reads any value; the check is applied once.                       *)
(***************************************************************************)
Records ==
    [set : {TRUE}, isPlaying : BOOLEAN, currentTime : 0..MaxTime,
     serverTimeMs : 0..MaxNow, receivedAtMs : {0}]

Videos ==
    [currentTime : 0..Duration, paused : BOOLEAN, seeking : BOOLEAN,
     by : {"other"}]

InitReconcile ==
    /\ now \in 0..MaxNow
    /\ state = InitialState
    /\ server = FALSE
    /\ broadcastIntervalId = "null"
    /\ connected = {}
    /\ emitted = NoEmit
    /\ last = NoEvent
    /\ video \in Videos
    /\ lastSyncStateRef \in Records
    /\ isScrubbing = FALSE
    /\ scrubTimeRef = 0
    /\ inbox = <<>>
    /\ outbox = <<>>
    /\ quiet = FALSE
    /\ autoplay = TRUE
    /\ skew \in {0, ClockSkew}
    /\ InitAux

\* lines 518-523 with the record and the clock as they are
ForceSync ==
    /\ did = NoAct
    /\ LET r == forceSync(video, lastSyncStateRef, ClientNow)
       IN  /\ video' = r.video
           /\ outbox' = outbox \o r.out
    /\ did' = [op |-> "forceSync", echo |-> FALSE]
    /\ UNCHANGED <<serverVars, lastSyncStateRef, isScrubbing, scrubTimeRef, inbox,
                   autoplay, quiet, skew, http, ledger>>

NextReconcile == ForceSync

SpecReconcile == InitReconcile /\ [][NextReconcile]_vars

\* the target of the written design, from the record and the client's clock
RefTarget(rec, n) ==
    IF rec.isPlaying
    THEN rec.currentTime + Max(0, n - rec.serverTimeMs)
    ELSE rec.currentTime

\* the drift check decided to correct
RefDrifted(v, rec, n) ==
    /\ ~v.seeking
    /\ Abs(RefTarget(rec, n) - v.currentTime) > FORCE_SYNC_THRESHOLD_SECONDS

\* C12 as stated: with target = currentTime + max(0, now - serverTimeMs) for
\* a playing record, else currentTime, a player that is not mid-seek and more
\* than the threshold away is forced to exactly target; otherwise its
\* position is left untouched.
C12_Original ==
    [][did'.op = "forceSync" =>
          IF RefDrifted(video, lastSyncStateRef, ClientNow)
          THEN video'.currentTime = RefTarget(lastSyncStateRef, ClientNow)
          ELSE video' = video]_vars

\* C12 amended: as stated, but the position is forced to the target clamped
\* to the media, min(target, duration); it is exactly target whenever target
\* is within the media.  Nothing is emitted either way.
C12_Amended ==
    [][did'.op = "forceSync" =>
          /\ outbox' = outbox
          /\ IF RefDrifted(video, lastSyncStateRef, ClientNow)
             THEN /\ video'.currentTime =
                        Min(RefTarget(lastSyncStateRef, ClientNow), Duration)
                  /\ video'.paused = video.paused
             ELSE video' = video]_vars

\* C12 witness: a playing record extrapolated by the elapsed time gave a
\* target within the media, more than the threshold from where the element
\* was, and the element now is there.
C12_Witness ==
    /\ did.op = "forceSync"
    /\ lastSyncStateRef.isPlaying
    /\ ClientNow > lastSyncStateRef.serverTimeMs
    /\ lastSyncStateRef.currentTime > 0
    /\ video.by = "correction"
    /\ video.currentTime = RefTarget(lastSyncStateRef, ClientNow)
    /\ video.currentTime <= Duration

(***************************************************************************)
(* SpecView: the system of SpecSys with a client whose clock agrees with   *)
(* the server's and whose browser lets it play, where the steps of the     *)
(* client record what was done (did), and where the connection may stay    *)
(* down for more than two periods of the client's timer.                   *)
(***************************************************************************)
InitView ==
    /\ InitServer
    /\ InitClient
    /\ autoplay = TRUE
    /\ skew = 0
    /\ InitAux

Did(op) == did' = [op |-> op, echo |-> FALSE] /\ UNCHANGED <<http, ledger>>

\* the message about to be dispatched is the viewer's command just issued,
\* and its answer will be the next message the client handles
OwnCommandJustSent ==
    /\ did.op = "viewer"
    /\ Len(outbox) = 1
    /\ Head(outbox).cause = "viewer"
    /\ inbox = <<>>

\* more than two periods of the pull timer
StalePeriod == PLAYER_SYNC_CHECK_INTERVAL_MS * 2 + 1

\* the connection stays down that long; a playing element reaches its end
Outage ==
    /\ Self \notin connected /\ lastSyncStateRef.set
    /\ now = MaxNow
    /\ now' = now + StalePeriod
    /\ video' = IF ~video.paused /\ video.currentTime < Duration
                THEN [video EXCEPT !.currentTime = Duration, !.by = "other"]
                ELSE video
    /\ UNCHANGED <<state, server, broadcastIntervalId, connected, emitted, last>>
    /\ UNCHANGED <<lastSyncStateRef, isScrubbing, scrubTimeRef, inbox, outbox,
                   autoplay, quiet, skew>>

NextView ==
    \/ afterInit /\ UNCHANGED clientVars /\ Did("other")
    \/ SysBroadcastTick /\ Did("other")
    \/ SysTick /\ Did("other")
    \/ Outage /\ Did("other")
    \/ handleConnect /\ Did("other")
    \/ handleDisconnect /\ Did("other")
    \/ Dispatch /\ did' = [op |-> IF OwnCommandJustSent THEN "Dispatch" ELSE "other",
                             echo |-> OwnCommandJustSent]
                /\ UNCHANGED <<http, ledger>>
    \/ \E m \in RemoteCommands : RemoteCommand(m) /\ Did("other")
    \/ handleSyncState
          /\ did' = [op |-> "handleSyncState",
                     echo |-> did.op = "Dispatch" /\ did.echo]
          /\ UNCHANGED <<http, ledger>>
    \/ PullInterval /\ Did("PullInterval")
    \/ togglePlay /\ Did("viewer")
    \/ handleScrubStart /\ Did("other")
    \/ \E value \in Positions : handleScrubChange(value) /\ Did("viewer")
    \/ handleScrubEnd /\ Did("viewer")
    \/ seeked /\ Did("other")
    \/ Ended /\ Did("other")

SpecView == InitView /\ [][NextView]_vars

(***************************************************************************)
(* Properties of the client's steps (specification SpecView).              *)
(***************************************************************************)
\* the step appends a seek command to the messages for the server
EmitsSeek ==
    /\ Len(outbox') > Len(outbox)
    /\ outbox'[Len(outbox')].ev = "seek"

\* the record is older than twice the period of the pull timer
Stale(rec, n) == n - rec.receivedAtMs > PLAYER_SYNC_CHECK_INTERVAL_MS * 2

\* reconciliation against the stored record would change the element now
CorrectionDue ==
    /\ lastSyncStateRef.set
    /\ Reconcile(video, lastSyncStateRef, ClientNow, autoplay).video # video

\* C11: while the viewer is scrubbing, neither the push path nor the pull
\* path changes the element or emits anything, and no seek command is
\* emitted; on release exactly one seek command with the final scrub
\* position is emitted.
C11_ScrubbingSuspendsCorrections ==
    [][/\ (isScrubbing /\ did'.op \in {"handleSyncState", "PullInterval"})
             => (video' = video /\ outbox' = outbox)
       /\ (isScrubbing /\ isScrubbing') => ~EmitsSeek
       /\ (isScrubbing /\ ~isScrubbing')
             => outbox' = Append(outbox, Cmd("seek", Num(scrubTimeRef), "viewer"))
      ]_vars

\* C11 witness: a snapshot was handled while the viewer is scrubbing, it is
\* stored, and the correction it calls for has not been applied.
C11_Witness ==
    /\ did.op = "handleSyncState"
    /\ isScrubbing
    /\ lastSyncStateRef.receivedAtMs = ClientNow
    /\ now > 0
    /\ CorrectionDue

C14_DisconnectedKeepsCorrecting ==
    (/\ Self \notin connected
     /\ ~isScrubbing
     /\ lastSyncStateRef.set
     /\ ~Stale(lastSyncStateRef, ClientNow)
     /\ CorrectionDue)
        => ENABLED (PullInterval /\ video' # video)

\* what the echo of a viewer's command does to the element: the command is
\* issued at server time t0 on element v with the session at st, handled
\* by the server d1 later, its snapshot handled by the client d2 later, the
\* client's clock being sk ahead
EchoLeavesAlone(v, st, cmd, sk, d1, d2, t0) ==
    LET local == IF cmd.kind = "seek" THEN seekTo(v, cmd.time, TRUE, "viewer")
                 ELSE IF v.paused THEN play(v, TRUE, "viewer", TRUE)
                 ELSE pause(v, TRUE, "viewer")
        m == local.out[1]
        st1 == CASE m.ev = "play" -> playState(st, m.time, t0 + d1)
                 [] m.ev = "pause" -> pauseState(st, m.time, t0 + d1)
                 [] OTHER -> seekState(st, m.time, t0 + d1)
        snap == getSyncState(st1, t0 + d1)
        w == local.video
        v1 == IF ~w.paused /\ d1 + d2 > 0 /\ w.currentTime < Duration
              THEN [w EXCEPT !.currentTime = Min(Duration, @ + d1 + d2),
                             !.by = "other"]
              ELSE w
        rec == [set |-> TRUE, isPlaying |-> snap.isPlaying,
                currentTime |-> snap.currentTime.val,
                serverTimeMs |-> snap.serverTimeMs,
                receivedAtMs |-> t0 + d1 + d2 + sk]
        r == Reconcile(v1, rec, t0 + d1 + d2 + sk, TRUE)
    IN  r.video = v1 /\ r.out = <<>>

\* what the viewer can do: toggle playback, or seek to a position
ViewerCommands ==
    {[kind |-> "toggle", time |-> 0]} \cup
    {[kind |-> "seek", time |-> t] : t \in Positions}

\* uplink and downlink delays that together stay within the threshold
Delays ==
    {d \in (0..FORCE_SYNC_THRESHOLD_SECONDS) \X (0..FORCE_SYNC_THRESHOLD_SECONDS) :
        d[1] + d[2] <= FORCE_SYNC_THRESHOLD_SECONDS}

\* C16 as stated: the snapshot that answers a viewer's own play, pause or
\* seek, delivered within the threshold, makes reconciliation do nothing:
\* no seek, no play, no pause, no message.
C16_Original ==
    \A cmd \in ViewerCommands, sk \in {0, ClockSkew}, d \in Delays :
        EchoLeavesAlone(video, state, cmd, sk, d[1], d[2], now)

\* C16 amended: the same, for a client whose clock agrees with the server's
\* and, when the command is a seek, whose play/pause state agreed with the
\* session's when it issued the command.
C16_Amended ==
    \A cmd \in ViewerCommands, d \in Delays :
        (cmd.kind = "seek" => video.paused = ~state.isPlaying)
            => EchoLeavesAlone(video, state, cmd, 0, d[1], d[2], now)

\* C16 witness: the client has just handled the snapshot that answers its
\* own play command; the session plays from where the client started, and
\* the element plays on, untouched by any correction.
C16_Witness ==
    /\ did.op = "handleSyncState" /\ did.echo
    /\ lastSyncStateRef.isPlaying
    /\ lastSyncStateRef.receivedAtMs = ClientNow
    /\ lastSyncStateRef.serverTimeMs = state.updatedAtMs
    /\ ~video.paused /\ ~video.seeking /\ video.by = "other"
    /\ video.currentTime > 0

\* the viewer has just toggled playback on a connected client that is not
\* scrubbing, and the command is still on its way to the gateway
ToggleAwaitingEcho ==
    /\ did.op = "viewer"
    /\ Self \in connected /\ ~isScrubbing
    /\ outbox # <<>>
    /\ outbox[Len(outbox)].cause = "viewer"
    /\ outbox[Len(outbox)].ev \in {"play", "pause"}
    /\ video.paused = (outbox[Len(outbox)].ev = "pause")

\* C26: after the viewer's play or pause on a connected client that is not
\* scrubbing, a reconciliation step that runs before the command has reached
\* the gateway (the pull timer with the record stored before the command, or
\* a snapshot emitted before the command was processed) does not put the
\* element back into the play state it had before the command.
C26_NoRevertBeforeEcho ==
    [][(ToggleAwaitingEcho /\ did'.op \in {"handleSyncState", "PullInterval"})
          => video'.paused = video.paused]_vars

(***************************************************************************)
(* SpecLink: the connection comes and goes while no viewer of this client  *)
(* acts.  socket.io hands over what the client sent once there is a        *)
(* connection, and the client handles what it received: Dispatch waits for *)
(* room on the wire, which the client makes again and again, hence its     *)
(* strong fairness.  Neither timer is needed for the sync of a connection  *)
(* to be answered, so neither is given fairness here.                      *)
(***************************************************************************)
\* the message about to be dispatched is the sync of handleConnect, and its
\* answer will be the next message the client handles
ConnectSyncNext ==
    /\ outbox # <<>>
    /\ Head(outbox).cause = "connect"
    /\ inbox = <<>>

LinkDispatch ==
    /\ Dispatch
    /\ did' = [op |-> IF ConnectSyncNext THEN "Dispatch" ELSE "other",
               echo |-> ConnectSyncNext]
    /\ UNCHANGED <<http, ledger>>

LinkSyncState ==
    /\ handleSyncState
    /\ did' = [op |-> "handleSyncState", echo |-> did.op = "Dispatch" /\ did.echo]
    /\ UNCHANGED <<http, ledger>>

NextLink ==
    \/ afterInit /\ UNCHANGED clientVars /\ Did("other")
    \/ SysBroadcastTick /\ Did("other")
    \/ SysTick /\ Did("other")
    \/ handleConnect /\ Did("connect")
    \/ handleDisconnect /\ Did("other")
    \/ LinkDispatch
    \/ \E m \in RemoteCommands : RemoteCommand(m) /\ Did("other")
    \/ LinkSyncState
    \/ PullInterval /\ Did("other")
    \/ seeked /\ Did("other")
    \/ Ended /\ Did("other")

FairLink ==
    /\ SF_vars(LinkDispatch)
    /\ WF_vars(LinkSyncState)

SpecLink == InitView /\ [][NextLink]_vars /\ FairLink

\* the sync of the connection made is waiting to be handed to the gateway
ConnectSyncPending(t) ==
    /\ Self \in connected
    /\ outbox # <<>> /\ Head(outbox).cause = "connect"
    /\ now = t

\* the record holds a snapshot the server computed at t or later
RecordSince(t) ==
    /\ lastSyncStateRef.set
    /\ lastSyncStateRef.serverTimeMs >= t
    /\ lastSyncStateRef.receivedAtMs >= t

\* C15: every step that establishes the client's connection puts a sync
\* request on the wire in the same step, and from then on, with no viewer
\* acting, the client's record comes to hold a snapshot the server computed
\* after the connection was made, unless the connection is lost again first.
C15_ConnectSyncs ==
    /\ [][(Self \notin connected /\ Self \in connected')
            => outbox' = Append(outbox, Cmd("sync", Undefined, "connect"))]_vars
    /\ \A t \in 0..MaxNow :
          ConnectSyncPending(t) ~> (RecordSince(t) \/ Self \notin connected)

\* a connection made after time had passed was answered: the record is the
\* reply to the sync of that connection
C15_Witness ==
    /\ did.op = "handleSyncState" /\ did.echo
    /\ Self \in connected
    /\ now > 0
    /\ lastSyncStateRef.set
    /\ lastSyncStateRef.serverTimeMs = now

(***************************************************************************)
(* SpecLedger: the gateway of Spec with a ledger kept beside it.  The      *)
(* ledger counts the intervals set in the runtime (setInterval adds one,   *)
(* clearInterval of a set id removes one), notes the shutdown, and keeps   *)
(* the last finite time a command supplied (floored at 0) and the time     *)
(* that has passed since while the session was playing.                    *)
(***************************************************************************)
\* what a command's payload does to the ledger
Supplied(time) ==
    IF isFiniteNumber(time)
    THEN [ledger EXCEPT !.base = Max(0, time.val), !.played = 0]
    ELSE ledger

LedgerHeld == UNCHANGED <<clientVars, http, did>>

LedgerAfterInit ==
    /\ afterInit
    /\ ledger' = [ledger EXCEPT !.timers = @ + 1]
    /\ LedgerHeld

LedgerDestroy ==
    /\ onModuleDestroy
    /\ ledger' = [ledger EXCEPT
                    !.timers = IF broadcastIntervalId # "null" THEN @ - 1 ELSE @,
                    !.down = TRUE]
    /\ LedgerHeld

LedgerTick ==
    /\ Tick
    /\ ledger' = [ledger EXCEPT !.played = IF state.isPlaying THEN @ + 1 ELSE @]
    /\ LedgerHeld

NextLedger ==
    \/ LedgerAfterInit
    \/ LedgerDestroy
    \/ BroadcastTick /\ UNCHANGED ledger /\ LedgerHeld
    \/ LedgerTick
    \/ \E p \in Clients : Connect(p) /\ UNCHANGED ledger /\ LedgerHeld
    \/ \E p \in Clients : Disconnect(p) /\ UNCHANGED ledger /\ LedgerHeld
    \/ \E p \in Clients, time \in Payloads :
          handlePlay(p, time) /\ ledger' = Supplied(time) /\ LedgerHeld
    \/ \E p \in Clients, time \in Payloads :
          handlePause(p, time) /\ ledger' = Supplied(time) /\ LedgerHeld
    \/ \E p \in Clients, time \in Payloads :
          handleSeek(p, time) /\ ledger' = Supplied(time) /\ LedgerHeld
    \/ \E p \in Clients : handleSync(p) /\ UNCHANGED ledger /\ LedgerHeld

SpecLedger == Init /\ [][NextLedger]_vars

\* C23: at most one interval is set at any time, whatever the peers do; it
\* is set from the moment the transport is initialised until the shutdown;
\* after the shutdown none is set and no tick broadcast follows.
C23_OneBroadcastTimer ==
    /\ [](/\ ledger.timers <= 1
          /\ ledger.timers = 1 <=> broadcastIntervalId = "timer"
          /\ (server /\ ~ledger.down) => ledger.timers = 1
          /\ ~server => ledger.timers = 0
          /\ ledger.down => ledger.timers = 0)
    /\ [][/\ (~server /\ server') => ledger'.timers = 1
          /\ (connected' # connected) => ledger'.timers = ledger.timers
          /\ ledger.down => ~(last'.op = "tick" /\ last' # last)]_vars

\* C23 witness: the gateway was shut down with peers connected, and a
\* command of a peer is still answered.
C23_Witness ==
    /\ ledger.down /\ server
    /\ connected = Clients
    /\ last.op = "play"
    /\ ledger.timers = 0

\* C25: the effective position is the last finite time a command supplied,
\* floored at 0 (0 when none was), plus the time that passed since while
\* the session was playing; and a play or pause without a usable time
\* leaves the effective position of that instant where it was.
C25_PositionAccounting ==
    /\ [](getEffectiveTime(state, now) = ledger.base + ledger.played)
    /\ [][(last' # last /\ last'.op \in {"play", "pause"}
              /\ ~isFiniteNumber(last'.time))
            => getEffectiveTime(state', now') = getEffectiveTime(state, now)]_vars

\* C25 witness: time was supplied, the session played, was paused without a
\* time while the clock went on, and was resumed without a time: the
\* position is the supplied time plus the time played, less than the time
\* that passed.
C25_Witness ==
    /\ last.op = "play" /\ ~isFiniteNumber(last.time)
    /\ ~last.pre.isPlaying
    /\ ledger.base > 0 /\ ledger.played > 0
    /\ now - ledger.played > 0
    /\ getEffectiveTime(state, now) = ledger.base + ledger.played

(***************************************************************************)
(* SpecPaths: the two reconciliation paths on their own.  The element is   *)
(* in any state (playing or paused, mid-seek or not), the record is any    *)
(* fresh record, a snapshot may be waiting, the viewer may be scrubbing,   *)
(* the browser may or may not let a script start playback; the push path   *)
(* or the pull path runs once, and did keeps the element as it was.        *)
(***************************************************************************)
Snapshots ==
    [isPlaying : BOOLEAN, currentTime : {Num(n) : n \in 0..MaxTime},
     serverTimeMs : 0..MaxNow]

InitPaths ==
    /\ now \in 0..MaxNow
    /\ state = InitialState
    /\ server = TRUE
    /\ broadcastIntervalId = "timer"
    /\ connected = {Self}
    /\ emitted = NoEmit
    /\ last = NoEvent
    /\ video \in Videos
    /\ lastSyncStateRef \in Records
    /\ isScrubbing \in BOOLEAN
    /\ scrubTimeRef = 0
    /\ inbox \in {<<>>} \cup {<<SyncStateMsg(b)>> : b \in Snapshots}
    /\ outbox = <<>>
    /\ quiet = FALSE
    /\ autoplay \in BOOLEAN
    /\ skew = 0
    /\ InitAux

PathPush ==
    /\ did = NoAct
    /\ handleSyncState
    /\ did' = [op |-> "handleSyncState", echo |-> FALSE, before |-> video]
    /\ UNCHANGED <<http, ledger>>

PathPull ==
    /\ did = NoAct
    /\ PullInterval
    /\ did' = [op |-> "PullInterval", echo |-> FALSE, before |-> video]
    /\ UNCHANGED <<http, ledger>>

NextPaths == PathPush \/ PathPull

SpecPaths == InitPaths /\ [][NextPaths]_vars

\* a reconciliation ran: either path, not suppressed by scrubbing
Reconciled == did.op \in {"handleSyncState", "PullInterval"} /\ ~isScrubbing

\* the position correction fired in the reconciliation that ran
PositionCorrected == video.currentTime # did.before.currentTime

\* C24 as stated: after every reconciliation not suppressed by scrubbing, an
\* element that was paused while the record says playing is playing, and an
\* element that was playing while the record says paused is paused, mid-seek
\* or not, position corrected or not; and nothing was sent.
C24_Original ==
    Reconciled =>
       /\ outbox = <<>>
       /\ (lastSyncStateRef.isPlaying /\ did.before.paused) => ~video.paused
       /\ (~lastSyncStateRef.isPlaying /\ ~did.before.paused) => video.paused

\* C24 amended: as stated, but the paused element is playing afterwards only
\* when the browser lets the script start it; when video.play() is rejected
\* the element stays paused.  An element that agrees with the record keeps
\* its play state.
C24_Amended ==
    Reconciled =>
       /\ outbox = <<>>
       /\ (lastSyncStateRef.isPlaying /\ did.before.paused)
             => video.paused = ~autoplay
       /\ (~lastSyncStateRef.isPlaying /\ ~did.before.paused) => video.paused
       /\ (lastSyncStateRef.isPlaying = ~did.before.paused)
             => video.paused = did.before.paused

\* C24 witness: the element was paused and mid-seek, away from the target by
\* more than the threshold; the snapshot said playing; the element was not
\* moved, and it is playing.
C24_Witness ==
    /\ did.op = "handleSyncState" /\ ~isScrubbing
    /\ did.before.paused /\ did.before.seeking
    /\ lastSyncStateRef.isPlaying
    /\ Abs(TargetTime(lastSyncStateRef, ClientNow) - did.before.currentTime)
          > FORCE_SYNC_THRESHOLD_SECONDS
    /\ ~PositionCorrected
    /\ ~video.paused

=============================================================================
